---- MODULE Spec2Model ----
(***************************************************************************)
(* Model of the FreeRCT viewport (src/src/viewport.cpp): the coordinate    *)
(* projector, the voxel collector with its two visitors (SpriteCollector   *)
(* and PixelFinder) and the Viewport window with its mouse handling.       *)
(***************************************************************************)
EXTENDS Integers, Sequences, FiniteSets, TLC

VARIABLES
    world,        \* _world: the voxel stacks (read-only for the viewport)
    xview,        \* Viewport::xview
    yview,        \* Viewport::yview
    zview,        \* Viewport::zview
    tile_width,   \* Viewport::tile_width
    tile_height,  \* Viewport::tile_height
    orientation,  \* Viewport::orientation
    mouse_mode,   \* Viewport::mouse_mode
    mouse_pos,    \* Viewport::mouse_pos
    mouse_state,  \* Viewport::mouse_state
    xvoxel,       \* Viewport::xvoxel
    yvoxel,       \* Viewport::yvoxel
    zvoxel,       \* Viewport::zvoxel
    last,         \* the handler that ran last, with its arguments
    marked,       \* MarkDirty() was called by the handler that ran last
    pf,           \* the PixelFinder object after the pass of the last handler
    sc,           \* the SpriteCollector object after the pass of the last handler
    video,        \* the last handler's Collect() passes and VideoSystem calls, in order
    rot_trail,    \* the uninterrupted run of Rotate calls that ends now (at most 4)
    pan           \* the MoveViewport call of the last handler, if it made one

view_vars == <<xview, yview, zview, tile_width, tile_height, orientation,
               mouse_mode, mouse_pos, mouse_state, xvoxel, yvoxel, zvoxel>>
obs_vars == <<last, marked, pf, sc, video, rot_trail, pan>>
vars == <<world, view_vars, obs_vars>>

----------------------------------------------------------------------------
(* Program constants. *)

VOR_NORTH == 0
VOR_EAST == 1
VOR_SOUTH == 2
VOR_WEST == 3
VOR_NUM_ORIENT == 4

MB_LEFT == 1
MB_MIDDLE == 2
MB_RIGHT == 4
MB_CURRENT == 7

MM_INACTIVE == 0
MM_TILE_TERRAFORM == 1
MM_COUNT == 2

InitTileWidth == 64
InitTileHeight == 16
InitZView == 8 * 256

Orientations == 0 .. (VOR_NUM_ORIENT - 1)

(* Bounds of the model: the window handed to the Viewport constructor. *)
WinX == 0
WinY == 0
WinW == 128
WinH == 96

----------------------------------------------------------------------------
(* C++ integer arithmetic. *)

\* Mutant of CDiv: the division rounds toward minus infinity.
CDivFloor(a, b) == a \div b

\* int / int with a positive divisor: truncation toward zero.
CDiv(a, b) == IF a >= 0 THEN a \div b ELSE -((-a) \div b)

\* int32 >> 8: arithmetic shift, rounds toward minus infinity.
Shr8(a) == a \div 256

\* Conversion to int16.
Int16(v) == ((v + 32768) % 65536) - 32768

\* value & mask for an 8 bit value and a mask of low bits (mask + 1 a power of 2).
BitAndLow(v, mask) == v % (mask + 1)

\* (value & bit) != 0 for a single bit.
HasBit(v, bit) == (v \div bit) % 2 = 1

\* Clamp<int32>(a, min, max) of math_func.h.
Clamp(a, lo, hi) == IF a <= lo THEN lo ELSE IF a >= hi THEN hi ELSE a

----------------------------------------------------------------------------
(* Coordinate projector: VoxelCollector::ComputeX / ComputeY. *)

ComputeX(orient, tw, x, y) ==
    CASE orient = VOR_NORTH -> Shr8(CDiv((y - x) * tw, 2))
      [] orient = VOR_WEST  -> Shr8(CDiv((-(x + y)) * tw, 2))
      [] orient = VOR_SOUTH -> Shr8(CDiv((x - y) * tw, 2))
      [] orient = VOR_EAST  -> Shr8(CDiv((x + y) * tw, 2))

\* Mutant of ComputeY: the sum is divided by 256 (toward zero) in place of
\* shifted.
ComputeYDivided(orient, tw, th, x, y, z) ==
    CASE orient = VOR_NORTH -> CDiv(CDiv((x + y) * tw, 4) - z * th, 256)
      [] orient = VOR_WEST  -> CDiv(CDiv((y - x) * tw, 4) - z * th, 256)
      [] orient = VOR_SOUTH -> CDiv(CDiv((-(x + y)) * tw, 4) - z * th, 256)
      [] orient = VOR_EAST  -> CDiv(CDiv((x - y) * tw, 4) - z * th, 256)

ComputeY(orient, tw, th, x, y, z) ==
    CASE orient = VOR_NORTH -> Shr8(CDiv((x + y) * tw, 4) - z * th)
      [] orient = VOR_WEST  -> Shr8(CDiv((y - x) * tw, 4) - z * th)
      [] orient = VOR_SOUTH -> Shr8(CDiv((-(x + y)) * tw, 4) - z * th)
      [] orient = VOR_EAST  -> Shr8(CDiv((x - y) * tw, 4) - z * th)

\* VoxelCollector::SetWindowSize: the screen area of interest of a collector
\* constructed with (xv, yv, zv, tw, th, orient).
SetWindowSize(orient, tw, th, xv, yv, zv, xpos, ypos, width, height) ==
    [x |-> ComputeX(orient, tw, xv, yv) + xpos,
     y |-> ComputeY(orient, tw, th, xv, yv, zv) + ypos,
     width |-> width,
     height |-> height]

----------------------------------------------------------------------------
(* The sprite store (read-only environment of the viewport). *)

NULL == [null |-> TRUE]

Abs(n) == IF n < 0 THEN -n ELSE n

\* _sprite_store.GetSurfaceSprite(type, slope, tile_width, orient): a flat tile
\* is a diamond of tile_width x tile_width/2 pixels below the north corner, a
\* raised tile a solid block that starts tile_width/4 above it. No sprite is
\* loaded for GTP_UNLOADED.
GetSurfaceSprite(gtype, slope, tw, orient) ==
    IF gtype = "GTP_UNLOADED" THEN NULL
    ELSE [null |-> FALSE, kind |-> "surface", gtype |-> gtype, slope |-> slope,
          xoffset |-> -(tw \div 2),
          yoffset |-> IF slope = 0 THEN 0 ELSE -(tw \div 4),
          width |-> tw,
          height |-> IF slope = 0 THEN tw \div 2 ELSE (tw \div 2) + (tw \div 4),
          colour |-> (IF gtype = "GTP_GRASS" THEN 20 ELSE 30) + slope]

\* _sprite_store.GetCursorSprite(slope, tile_width, orient): only the flat
\* cursor is loaded.
GetCursorSprite(slope, tw, orient) ==
    IF slope # 0 THEN NULL
    ELSE [null |-> FALSE, kind |-> "cursor", slope |-> slope,
          xoffset |-> -(tw \div 2), yoffset |-> 0,
          width |-> tw, height |-> tw \div 2, colour |-> 255]

\* Sprite::GetPixel(xoffset, yoffset): 0 outside the image and at the
\* transparent pixels around the diamond of a flat tile.
GetPixel(spr, x, y) ==
    IF x < 0 \/ y < 0 \/ x >= spr.width \/ y >= spr.height THEN 0
    ELSE IF spr.slope = 0
              /\ Abs(2 * x + 1 - spr.width) + 2 * Abs(2 * y + 1 - spr.height) > spr.width
         THEN 0
    ELSE spr.colour

----------------------------------------------------------------------------
(* The world (read-only environment of the viewport). *)

Surface(gtype, slope) == [type |-> "VT_SURFACE", gtype |-> gtype, slope |-> slope]
EmptyVoxel == [type |-> "VT_EMPTY", gtype |-> "GTP_INVALID", slope |-> 0]
Stack(base, voxels) == [base |-> base, height |-> Len(voxels), voxels |-> voxels]

GetXSize(w) == w.xsize
GetYSize(w) == w.ysize
GetStack(w, xpos, ypos) == w.stacks[<<xpos, ypos>>]

----------------------------------------------------------------------------
(* VoxelCollector::Collect: the voxels handed to CollectVoxel, in order.     *)
(* A collector c is [orient, tw, th, rect].                                 *)

RECURSIVE ScanStackBreakBelow(_, _, _, _, _, _, _, _)
\* Mutant of ScanStack: the loop is left at a voxel below the window and goes
\* on at one above it (break and continue swapped).
ScanStackBreakBelow(w, c, xpos, ypos, world_x, world_y, north_x, count) ==
    LET stack == GetStack(w, xpos, ypos) IN
    IF count >= stack.height THEN <<>>
    ELSE LET zpos == stack.base + count
             north_y == ComputeY(c.orient, c.tw, c.th, world_x, world_y, zpos * 256)
             rest == ScanStackBreakBelow(w, c, xpos, ypos, world_x, world_y, north_x, count + 1)
         IN IF north_y - c.th >= c.rect.y + c.rect.height THEN <<>>
            ELSE IF north_y + (c.tw \div 2) + c.th <= c.rect.y THEN rest
            ELSE <<[vox |-> stack.voxels[count + 1], xpos |-> xpos, ypos |-> ypos,
                    zpos |-> zpos, xnorth |-> north_x, ynorth |-> north_y]>> \o rest

RECURSIVE ScanStack(_, _, _, _, _, _, _, _)
\* The innermost loop (count) of Collect for the column (xpos, ypos).
ScanStack(w, c, xpos, ypos, world_x, world_y, north_x, count) ==
    LET stack == GetStack(w, xpos, ypos) IN
    IF count >= stack.height THEN <<>>
    ELSE LET zpos == stack.base + count
             north_y == ComputeY(c.orient, c.tw, c.th, world_x, world_y, zpos * 256)
             rest == ScanStack(w, c, xpos, ypos, world_x, world_y, north_x, count + 1)
         IN IF north_y - c.th >= c.rect.y + c.rect.height THEN rest
            ELSE IF north_y + (c.tw \div 2) + c.th <= c.rect.y THEN <<>>
            ELSE <<[vox |-> stack.voxels[count + 1], xpos |-> xpos, ypos |-> ypos,
                    zpos |-> zpos, xnorth |-> north_x, ynorth |-> north_y]>> \o rest

\* The body of the ypos loop of Collect for the column (xpos, ypos).
ScanColumn(w, c, xpos, ypos) ==
    LET world_x == (xpos + (IF c.orient = VOR_SOUTH \/ c.orient = VOR_WEST THEN 1 ELSE 0)) * 256
        world_y == (ypos + (IF c.orient = VOR_SOUTH \/ c.orient = VOR_EAST THEN 1 ELSE 0)) * 256
        north_x == ComputeX(c.orient, c.tw, world_x, world_y)
    IN IF north_x + (c.tw \div 2) <= c.rect.x THEN <<>>
       ELSE IF north_x - (c.tw \div 2) >= c.rect.x + c.rect.width THEN <<>>
       ELSE ScanStack(w, c, xpos, ypos, world_x, world_y, north_x, 0)

RECURSIVE ScanColumns(_, _, _)
\* The xpos and ypos loops of Collect, from column number n on (columns are
\* numbered xpos * ysize + ypos).
ScanColumns(w, c, n) ==
    IF n >= GetXSize(w) * GetYSize(w) THEN <<>>
    ELSE ScanColumn(w, c, n \div GetYSize(w), n % GetYSize(w)) \o ScanColumns(w, c, n + 1)

Collect(w, c) == ScanColumns(w, c, 0)

\* The depth key both visitors compute for a voxel.
VoxelDistance(orient, xpos, ypos, zpos) ==
    LET sx == IF orient = VOR_NORTH \/ orient = VOR_EAST THEN 256 ELSE -256
        sy == IF orient = VOR_NORTH \/ orient = VOR_WEST THEN 256 ELSE -256
    IN sx * xpos + sy * ypos + zpos * 256

----------------------------------------------------------------------------
(* PixelFinder. *)

\* PixelFinder::PixelFinder
NewPixelFinder(orient, tw, th, rect) ==
    [orient |-> orient, tw |-> tw, th |-> th, rect |-> rect,
     found |-> FALSE, distance |-> 0, pixel |-> 0,
     xvoxel |-> 0, yvoxel |-> 0, zvoxel |-> 0]

\* Mutant of PixelFinderCollectVoxel: a voxel of the same distance as the one
\* found replaces it (dist < distance in place of dist <= distance).
PixelFinderCollectVoxelTieLast(f, v) ==
    IF v.vox.type # "VT_SURFACE" THEN f
    ELSE IF v.vox.gtype = "GTP_INVALID" THEN f
    ELSE LET spr == GetSurfaceSprite(v.vox.gtype, v.vox.slope, f.tw, f.orient) IN
         IF spr = NULL THEN f
         ELSE LET dist == VoxelDistance(f.orient, v.xpos, v.ypos, v.zpos) IN
              IF f.found /\ dist < f.distance THEN f
              ELSE LET xoffset == Int16(f.rect.x - v.xnorth - spr.xoffset)
                       yoffset == Int16(f.rect.y - v.ynorth - spr.yoffset)
                   IN IF xoffset < 0 \/ yoffset < 0 THEN f
                      ELSE LET pixel == GetPixel(spr, xoffset, yoffset) IN
                           IF pixel = 0 THEN f
                           ELSE [f EXCEPT !.distance = dist, !.found = TRUE,
                                          !.xvoxel = v.xpos % 65536,
                                          !.yvoxel = v.ypos % 65536,
                                          !.zvoxel = v.zpos % 256,
                                          !.pixel = pixel]

\* PixelFinder::CollectVoxel
PixelFinderCollectVoxel(f, v) ==
    IF v.vox.type # "VT_SURFACE" THEN f
    ELSE IF v.vox.gtype = "GTP_INVALID" THEN f
    ELSE LET spr == GetSurfaceSprite(v.vox.gtype, v.vox.slope, f.tw, f.orient) IN
         IF spr = NULL THEN f
         ELSE LET dist == VoxelDistance(f.orient, v.xpos, v.ypos, v.zpos) IN
              IF f.found /\ dist <= f.distance THEN f
              ELSE LET xoffset == Int16(f.rect.x - v.xnorth - spr.xoffset)
                       yoffset == Int16(f.rect.y - v.ynorth - spr.yoffset)
                   IN IF xoffset < 0 \/ yoffset < 0 THEN f
                      ELSE LET pixel == GetPixel(spr, xoffset, yoffset) IN
                           IF pixel = 0 THEN f
                           ELSE [f EXCEPT !.distance = dist, !.found = TRUE,
                                          !.xvoxel = v.xpos % 65536,
                                          !.yvoxel = v.ypos % 65536,
                                          !.zvoxel = v.zpos % 256,
                                          !.pixel = pixel]

RECURSIVE PixelFinderFold(_, _, _)
\* CollectVoxel applied to the voxels vs[i..] in order.
PixelFinderFold(f, vs, i) ==
    IF i > Len(vs) THEN f
    ELSE PixelFinderFold(PixelFinderCollectVoxel(f, vs[i]), vs, i + 1)

\* collector.Collect() of a PixelFinder.
PixelFinderCollect(w, f) == PixelFinderFold(f, Collect(w, f), 1)

----------------------------------------------------------------------------
(* SpriteCollector. *)

\* SpriteCollector::SpriteCollector, SetXYOffset
NewSpriteCollector(orient, tw, th, rect, xoffset, yoffset) ==
    [orient |-> orient, tw |-> tw, th |-> th, rect |-> rect,
     xoffset |-> xoffset, yoffset |-> yoffset,
     draw_images |-> <<>>, draw_mouse_cursor |-> FALSE,
     mousex |-> 0, mousey |-> 0, mousez |-> 0]

\* SpriteCollector::SetMouseCursor
SetMouseCursor(s, xpos, ypos, zpos) ==
    [s EXCEPT !.draw_mouse_cursor = TRUE, !.mousex = xpos % 65536,
              !.mousey = ypos % 65536, !.mousez = zpos % 256]

\* Number of the elements of the multimap m whose key is at most key.
UpperBound(m, key) == Cardinality({i \in 1 .. Len(m) : m[i].first <= key})

\* Mutant of MultimapInsert: in front of the elements with an equal key.
MultimapInsertFront(m, p) ==
    LET n == Cardinality({i \in 1 .. Len(m) : m[i].first < p.first}) IN
    SubSeq(m, 1, n) \o <<p>> \o SubSeq(m, n + 1, Len(m))

\* std::multimap::insert: behind the elements with a key that is not greater.
MultimapInsert(m, p) ==
    LET n == UpperBound(m, p.first) IN
    SubSeq(m, 1, n) \o <<p>> \o SubSeq(m, n + 1, Len(m))

\* Mutant of SpriteCollectorCollectVoxel: the ground type is not compared
\* with GTP_INVALID before the sprite is asked for.
SpriteCollectorCollectVoxelAnyGround(s, v) ==
    IF v.vox.type # "VT_SURFACE" THEN s
    ELSE LET spr == GetSurfaceSprite(v.vox.gtype, v.vox.slope, s.tw, s.orient) IN
         IF spr = NULL THEN s
         ELSE LET mspr == IF s.draw_mouse_cursor /\ v.xpos = s.mousex
                             /\ v.ypos = s.mousey /\ v.zpos = s.mousez
                          THEN GetCursorSprite(v.vox.slope, s.tw, s.orient)
                          ELSE NULL
                  p == [first |-> VoxelDistance(s.orient, v.xpos, v.ypos, v.zpos),
                        spr |-> spr, cursor |-> mspr,
                        base |-> [x |-> s.xoffset + v.xnorth + spr.xoffset - s.rect.x,
                                  y |-> s.yoffset + v.ynorth + spr.yoffset - s.rect.y],
                        voxel |-> <<v.xpos, v.ypos, v.zpos>>,
                        seq |-> Len(s.draw_images) + 1]
              IN [s EXCEPT !.draw_images = MultimapInsert(s.draw_images, p)]

\* SpriteCollector::CollectVoxel
SpriteCollectorCollectVoxel(s, v) ==
    IF v.vox.type # "VT_SURFACE" THEN s
    ELSE IF v.vox.gtype = "GTP_INVALID" THEN s
    ELSE LET spr == GetSurfaceSprite(v.vox.gtype, v.vox.slope, s.tw, s.orient) IN
         IF spr = NULL THEN s
         ELSE LET mspr == IF s.draw_mouse_cursor /\ v.xpos = s.mousex
                             /\ v.ypos = s.mousey /\ v.zpos = s.mousez
                          THEN GetCursorSprite(v.vox.slope, s.tw, s.orient)
                          ELSE NULL
                  p == [first |-> VoxelDistance(s.orient, v.xpos, v.ypos, v.zpos),
                        spr |-> spr, cursor |-> mspr,
                        base |-> [x |-> s.xoffset + v.xnorth + spr.xoffset - s.rect.x,
                                  y |-> s.yoffset + v.ynorth + spr.yoffset - s.rect.y],
                        voxel |-> <<v.xpos, v.ypos, v.zpos>>,
                        seq |-> Len(s.draw_images) + 1]
              IN [s EXCEPT !.draw_images = MultimapInsert(s.draw_images, p)]

RECURSIVE SpriteCollectorFold(_, _, _)
\* CollectVoxel applied to the voxels vs[i..] in order.
SpriteCollectorFold(s, vs, i) ==
    IF i > Len(vs) THEN s
    ELSE SpriteCollectorFold(SpriteCollectorCollectVoxel(s, vs[i]), vs, i + 1)

\* collector.Collect() of a SpriteCollector.
SpriteCollectorCollect(w, s) == SpriteCollectorFold(s, Collect(w, s), 1)

----------------------------------------------------------------------------
(* The Viewport window. A viewport v is the record of its fields; a handler  *)
(* yields [v, marked, pf, sc, video]: the fields after it, whether it called *)
(* MarkDirty(), the collectors it ran and its calls on the video system.    *)

Returns(v) ==
    [v |-> v, marked |-> FALSE, pf |-> <<>>, sc |-> <<>>, video |-> <<>>]

MarkDirty(r) == [r EXCEPT !.marked = TRUE]

\* Viewport::Viewport(x, y, w, h)
NewViewport(w) ==
    [xview |-> CDiv(GetXSize(w) * 256, 2),
     yview |-> CDiv(GetYSize(w) * 256, 2),
     zview |-> InitZView,
     tile_width |-> InitTileWidth,
     tile_height |-> InitTileHeight,
     orientation |-> VOR_NORTH,
     mouse_mode |-> MM_INACTIVE,
     mouse_pos |-> [x |-> 0, y |-> 0],
     mouse_state |-> 0,
     xvoxel |-> 0, yvoxel |-> 0, zvoxel |-> 0]

\* The BlitImage calls of the loop of OnDraw over draw_images[i..].
RECURSIVE BlitImages(_, _, _)
BlitImages(m, wind_rect, i) ==
    IF i > Len(m) THEN <<>>
    ELSE LET blit(spr) == [call |-> "BlitImage", base |-> m[i].base, spr |-> spr,
                           rect |-> wind_rect, image |-> i]
         IN <<blit(m[i].spr)>>
            \o (IF m[i].cursor # NULL THEN <<blit(m[i].cursor)>> ELSE <<>>)
            \o BlitImages(m, wind_rect, i + 1)

\* Mutant of OnDraw: the surface is locked before the sprites are collected.
OnDrawLockFirst(w, v) ==
    LET rect == SetWindowSize(v.orientation, v.tile_width, v.tile_height,
                              v.xview, v.yview, v.zview,
                              CDiv(-Int16(WinW), 2), CDiv(-Int16(WinH), 2), WinW, WinH)
        c0 == NewSpriteCollector(v.orientation, v.tile_width, v.tile_height, rect, WinX, WinY)
        c1 == IF v.mouse_mode = MM_TILE_TERRAFORM
              THEN SetMouseCursor(c0, v.xvoxel, v.yvoxel, v.zvoxel) ELSE c0
        collector == SpriteCollectorCollect(w, c1)
        wind_rect == [x |-> WinX, y |-> WinY, width |-> WinW, height |-> WinH]
    IN [Returns(v) EXCEPT
          !.sc = <<collector>>,
          !.video = <<[call |-> "LockSurface"], [call |-> "Collect"],
                      [call |-> "FillSurface"]>>
                    \o BlitImages(collector.draw_images, wind_rect, 1)
                    \o <<[call |-> "UnlockSurface"]>>]

\* Viewport::OnDraw
OnDraw(w, v) ==
    LET rect == SetWindowSize(v.orientation, v.tile_width, v.tile_height,
                              v.xview, v.yview, v.zview,
                              CDiv(-Int16(WinW), 2), CDiv(-Int16(WinH), 2), WinW, WinH)
        c0 == NewSpriteCollector(v.orientation, v.tile_width, v.tile_height, rect, WinX, WinY)
        c1 == IF v.mouse_mode = MM_TILE_TERRAFORM
              THEN SetMouseCursor(c0, v.xvoxel, v.yvoxel, v.zvoxel) ELSE c0
        collector == SpriteCollectorCollect(w, c1)
        wind_rect == [x |-> WinX, y |-> WinY, width |-> WinW, height |-> WinH]
    IN [Returns(v) EXCEPT
          !.sc = <<collector>>,
          !.video = <<[call |-> "Collect"], [call |-> "LockSurface"],
                      [call |-> "FillSurface"]>>
                    \o BlitImages(collector.draw_images, wind_rect, 1)
                    \o <<[call |-> "UnlockSurface"]>>]

\* Mutant of ComputeCursorPosition: the found flag is not looked at.
ComputeCursorPositionNoFound(w, v) ==
    LET xp == Int16(v.mouse_pos.x - WinW \div 2)
        yp == Int16(v.mouse_pos.y - WinH \div 2)
        rect == SetWindowSize(v.orientation, v.tile_width, v.tile_height,
                              v.xview, v.yview, v.zview, xp, yp, 1, 1)
        collector == PixelFinderCollect(w,
                        NewPixelFinder(v.orientation, v.tile_width, v.tile_height, rect))
        r == [Returns(v) EXCEPT !.pf = <<collector>>, !.video = <<[call |-> "Collect"]>>]
    IN IF collector.xvoxel # v.xvoxel \/ collector.yvoxel # v.yvoxel
          \/ collector.zvoxel # v.zvoxel
       THEN MarkDirty([r EXCEPT !.v.xvoxel = collector.xvoxel,
                                !.v.yvoxel = collector.yvoxel,
                                !.v.zvoxel = collector.zvoxel])
       ELSE r

\* Viewport::ComputeCursorPosition
ComputeCursorPosition(w, v) ==
    LET xp == Int16(v.mouse_pos.x - WinW \div 2)
        yp == Int16(v.mouse_pos.y - WinH \div 2)
        rect == SetWindowSize(v.orientation, v.tile_width, v.tile_height,
                              v.xview, v.yview, v.zview, xp, yp, 1, 1)
        collector == PixelFinderCollect(w,
                        NewPixelFinder(v.orientation, v.tile_width, v.tile_height, rect))
        r == [Returns(v) EXCEPT !.pf = <<collector>>, !.video = <<[call |-> "Collect"]>>]
    IN IF collector.found /\ (collector.xvoxel # v.xvoxel \/ collector.yvoxel # v.yvoxel
                              \/ collector.zvoxel # v.zvoxel)
       THEN MarkDirty([r EXCEPT !.v.xvoxel = collector.xvoxel,
                                !.v.yvoxel = collector.yvoxel,
                                !.v.zvoxel = collector.zvoxel])
       ELSE r

\* Mutant of Rotate: the direction is not looked at, every turn is clockwise.
RotateClockwiseOnly(w, v, direction) ==
    LET o == (v.orientation + VOR_NUM_ORIENT + 1) % VOR_NUM_ORIENT
    IN MarkDirty(ComputeCursorPosition(w, [v EXCEPT !.orientation = o]))

\* Viewport::Rotate
Rotate(w, v, direction) ==
    LET o == (v.orientation + VOR_NUM_ORIENT + (IF direction > 0 THEN 1 ELSE -1))
             % VOR_NUM_ORIENT
    IN MarkDirty(ComputeCursorPosition(w, [v EXCEPT !.orientation = o]))

\* The new_x of MoveViewport before it is clamped.
MoveNewX(v, dx, dy) ==
    LET ax == CDiv(dx * 256, v.tile_width)
        ay == CDiv(dy * 512, v.tile_width)
    IN CASE v.orientation = VOR_NORTH -> v.xview + ax - ay
         [] v.orientation = VOR_EAST  -> v.xview - ax - ay
         [] v.orientation = VOR_SOUTH -> v.xview - ax + ay
         [] v.orientation = VOR_WEST  -> v.xview + ax + ay

\* The new_y of MoveViewport before it is clamped.
MoveNewY(v, dx, dy) ==
    LET ax == CDiv(dx * 256, v.tile_width)
        ay == CDiv(dy * 512, v.tile_width)
    IN CASE v.orientation = VOR_NORTH -> v.yview - ax - ay
         [] v.orientation = VOR_EAST  -> v.yview - ax + ay
         [] v.orientation = VOR_SOUTH -> v.yview + ax + ay
         [] v.orientation = VOR_WEST  -> v.yview + ax - ay

\* Mutant of MoveViewport: new_y is not clamped.
MoveViewportNoClampY(w, v, dx, dy) ==
    LET new_x == Clamp(MoveNewX(v, dx, dy), 0, GetXSize(w) * 256)
        new_y == MoveNewY(v, dx, dy)
    IN IF new_x # v.xview \/ new_y # v.yview
       THEN MarkDirty(Returns([v EXCEPT !.xview = new_x, !.yview = new_y]))
       ELSE Returns(v)

\* Mutant of MoveViewport: the new center is compared with the current one
\* before it is clamped.
MoveViewportCompareFirst(w, v, dx, dy) ==
    LET new_x == MoveNewX(v, dx, dy)
        new_y == MoveNewY(v, dx, dy)
    IN IF new_x # v.xview \/ new_y # v.yview
       THEN MarkDirty(Returns([v EXCEPT !.xview = Clamp(new_x, 0, GetXSize(w) * 256),
                                         !.yview = Clamp(new_y, 0, GetYSize(w) * 256)]))
       ELSE Returns(v)

\* Viewport::MoveViewport
MoveViewport(w, v, dx, dy) ==
    LET new_x == Clamp(MoveNewX(v, dx, dy), 0, GetXSize(w) * 256)
        new_y == Clamp(MoveNewY(v, dx, dy), 0, GetYSize(w) * 256)
    IN IF new_x # v.xview \/ new_y # v.yview
       THEN MarkDirty(Returns([v EXCEPT !.xview = new_x, !.yview = new_y]))
       ELSE Returns(v)

\* Mutant of SetMouseMode: the button bitmask is kept.
SetMouseModeKeepState(v, mode) ==
    Returns([v EXCEPT !.mouse_mode = mode])

\* Viewport::SetMouseMode (mode < MM_COUNT is asserted)
SetMouseMode(v, mode) ==
    Returns([v EXCEPT !.mouse_state = 0, !.mouse_mode = mode])

\* Mutant of OnMouseMoveEvent: the INACTIVE mode is handled as TERRAFORM.
OnMouseMoveEventAnyMode(w, v, pos) ==
    IF pos = v.mouse_pos THEN Returns(v)
    ELSE IF HasBit(v.mouse_state, MB_RIGHT)
         THEN LET r == MoveViewport(w, v, pos.x - v.mouse_pos.x, pos.y - v.mouse_pos.y)
              IN [r EXCEPT !.v.mouse_pos = pos]
         ELSE ComputeCursorPosition(w, [v EXCEPT !.mouse_pos = pos])

\* Viewport::OnMouseMoveEvent
OnMouseMoveEvent(w, v, pos) ==
    IF v.mouse_mode = MM_INACTIVE THEN Returns(v)
    ELSE IF pos = v.mouse_pos THEN Returns(v)
    ELSE IF HasBit(v.mouse_state, MB_RIGHT)
         THEN LET r == MoveViewport(w, v, pos.x - v.mouse_pos.x, pos.y - v.mouse_pos.y)
              IN [r EXCEPT !.v.mouse_pos = pos]
         ELSE ComputeCursorPosition(w, [v EXCEPT !.mouse_pos = pos])

\* Mutant of OnMouseButtonEvent: the mouse mode is not looked at.
OnMouseButtonEventAnyMode(v, state) ==
    Returns([v EXCEPT !.mouse_state = BitAndLow(state, MB_CURRENT)])

\* Mutant of OnMouseButtonEvent: the state is stored without the mask.
OnMouseButtonEventUnmasked(v, state) ==
    IF v.mouse_mode = MM_INACTIVE THEN Returns(v)
    ELSE Returns([v EXCEPT !.mouse_state = state])

\* Viewport::OnMouseButtonEvent
OnMouseButtonEvent(v, state) ==
    IF v.mouse_mode = MM_INACTIVE THEN Returns(v)
    ELSE Returns([v EXCEPT !.mouse_state = BitAndLow(state, MB_CURRENT)])

\* Viewport::OnMouseEnterEvent
OnMouseEnterEvent(v) == Returns([v EXCEPT !.mouse_state = 0])

\* Viewport::OnMouseLeaveEvent
OnMouseLeaveEvent(v) == Returns([v EXCEPT !.mouse_state = 0])

----------------------------------------------------------------------------
(* The worlds and the inputs of the model. *)

\* A 2 x 2 world: stacks of different base heights, flat and raised tiles, a
\* voxel without ground, one whose sprite is not loaded and an empty voxel.
World2x2 ==
    [xsize |-> 2, ysize |-> 2,
     stacks |-> (<<0, 0>> :> Stack(8, <<Surface("GTP_GRASS", 0), Surface("GTP_GRASS", 1)>>)
              @@ <<0, 1>> :> Stack(8, <<Surface("GTP_SAND", 1)>>)
              @@ <<1, 0>> :> Stack(8, <<Surface("GTP_UNLOADED", 0), EmptyVoxel,
                                        Surface("GTP_SAND", 0)>>)
              @@ <<1, 1>> :> Stack(7, <<Surface("GTP_INVALID", 0), Surface("GTP_SAND", 1)>>))]

\* A 1 x 1 world whose only voxel is a surface voxel without a ground type.
World1x1Invalid ==
    [xsize |-> 1, ysize |-> 1,
     stacks |-> (<<0, 0>> :> Stack(8, <<Surface("GTP_INVALID", 0)>>))]

Worlds == {World2x2, World1x1Invalid}

RotateDirections == {-1, 0, 1}
PanDeltas == {<<0, 0>>, <<64, 0>>, <<-64, 0>>, <<0, 32>>, <<0, -32>>}
MousePositions == {[x |-> 0, y |-> 0], [x |-> 64, y |-> 32], [x |-> 64, y |-> 0]}
ButtonStates == {0, MB_LEFT, MB_RIGHT, MB_RIGHT + 16}
MouseModes == 0 .. (MM_COUNT - 1)

\* The inputs of the panning specification: tile widths that do and do not
\* divide 256, centers in the middle and next to the edges of the world, and
\* deltas of a few pixels.
PanTileWidths == {64, 48, 100}
PanCenters == {<<256, 256>>, <<0, 4>>, <<512, 508>>}
FinePanDeltas == {<<0, 0>>, <<1, 0>>, <<-1, 0>>, <<0, 1>>, <<0, -1>>, <<3, -2>>, <<-3, 2>>}
MaxPanRun == 2

----------------------------------------------------------------------------
(* The state machine. *)

\* The Viewport object of the current state.
This ==
    [xview |-> xview, yview |-> yview, zview |-> zview,
     tile_width |-> tile_width, tile_height |-> tile_height,
     orientation |-> orientation, mouse_mode |-> mouse_mode,
     mouse_pos |-> mouse_pos, mouse_state |-> mouse_state,
     xvoxel |-> xvoxel, yvoxel |-> yvoxel, zvoxel |-> zvoxel]

\* The state after a handler with the outcome r.
Becomes(r) ==
    /\ xview' = r.v.xview
    /\ yview' = r.v.yview
    /\ zview' = r.v.zview
    /\ tile_width' = r.v.tile_width
    /\ tile_height' = r.v.tile_height
    /\ orientation' = r.v.orientation
    /\ mouse_mode' = r.v.mouse_mode
    /\ mouse_pos' = r.v.mouse_pos
    /\ mouse_state' = r.v.mouse_state
    /\ xvoxel' = r.v.xvoxel
    /\ yvoxel' = r.v.yvoxel
    /\ zvoxel' = r.v.zvoxel
    /\ marked' = r.marked
    /\ pf' = r.pf
    /\ sc' = r.sc
    /\ video' = r.video
    /\ world' = world

Call(op, a, b) == [op |-> op, a |-> a, b |-> b]

\* What is recorded of a MoveViewport(dx, dy) call on v: the center it started
\* from, whether the clamp altered its result, whether it takes back the
\* MoveViewport call of the handler before (then undo_to is the center that
\* call started from), and the number of handlers in a row that have called
\* MoveViewport (counted up to MaxPanRun).
PanRecord(v, dx, dy) ==
    LET clamped == \/ MoveNewX(v, dx, dy) < 0 \/ MoveNewX(v, dx, dy) > GetXSize(world) * 256
                   \/ MoveNewY(v, dx, dy) < 0 \/ MoveNewY(v, dx, dy) > GetYSize(world) * 256
        undo == /\ pan # <<>>
                /\ ~pan[1].clamped
                /\ pan[1].dx = -dx /\ pan[1].dy = -dy
                /\ pan[1].orientation = v.orientation
    IN <<[dx |-> dx, dy |-> dy, from |-> <<v.xview, v.yview>>, clamped |-> clamped,
          orientation |-> v.orientation,
          run |-> IF pan = <<>> THEN 1
                  ELSE IF pan[1].run < MaxPanRun THEN pan[1].run + 1 ELSE MaxPanRun,
          undo |-> undo, undo_to |-> IF undo THEN pan[1].from ELSE <<>>]>>

Init ==
    /\ world \in Worlds
    /\ LET v == NewViewport(world) IN
        /\ xview = v.xview
        /\ yview = v.yview
        /\ zview = v.zview
        /\ tile_width = v.tile_width
        /\ tile_height = v.tile_height
        /\ orientation = v.orientation
        /\ mouse_mode = v.mouse_mode
        /\ mouse_pos = v.mouse_pos
        /\ mouse_state = v.mouse_state
        /\ xvoxel = v.xvoxel
        /\ yvoxel = v.yvoxel
        /\ zvoxel = v.zvoxel
    /\ last = Call("Viewport", 0, 0)
    /\ marked = FALSE
    /\ pf = <<>>
    /\ sc = <<>>
    /\ video = <<>>
    /\ rot_trail = <<>>
    /\ pan = <<>>

DoOnDraw ==
    /\ Becomes(OnDraw(world, This))
    /\ last' = Call("OnDraw", 0, 0)
    /\ rot_trail' = <<>>
    /\ pan' = <<>>

DoRotate(direction) ==
    /\ Becomes(Rotate(world, This, direction))
    /\ last' = Call("Rotate", direction, 0)
    /\ rot_trail' = LET t == rot_trail \o <<[cw |-> direction > 0, before |-> orientation]>>
                    IN IF Len(t) > 4 THEN Tail(t) ELSE t
    /\ pan' = <<>>

DoMoveViewport(dx, dy) ==
    /\ Becomes(MoveViewport(world, This, dx, dy))
    /\ last' = Call("MoveViewport", dx, dy)
    /\ rot_trail' = <<>>
    /\ pan' = PanRecord(This, dx, dy)

DoSetMouseMode(mode) ==
    /\ mode < MM_COUNT
    /\ Becomes(SetMouseMode(This, mode))
    /\ last' = Call("SetMouseMode", mode, 0)
    /\ rot_trail' = <<>>
    /\ pan' = <<>>

DoOnMouseMoveEvent(pos) ==
    /\ Becomes(OnMouseMoveEvent(world, This, pos))
    /\ last' = Call("OnMouseMoveEvent", pos.x, pos.y)
    /\ rot_trail' = <<>>
    /\ pan' = IF mouse_mode = MM_TILE_TERRAFORM /\ pos # mouse_pos
                 /\ HasBit(mouse_state, MB_RIGHT)
              THEN PanRecord(This, pos.x - mouse_pos.x, pos.y - mouse_pos.y)
              ELSE <<>>

DoOnMouseButtonEvent(state) ==
    /\ Becomes(OnMouseButtonEvent(This, state))
    /\ last' = Call("OnMouseButtonEvent", state, 0)
    /\ rot_trail' = <<>>
    /\ pan' = <<>>

DoOnMouseEnterEvent ==
    /\ Becomes(OnMouseEnterEvent(This))
    /\ last' = Call("OnMouseEnterEvent", 0, 0)
    /\ rot_trail' = <<>>
    /\ pan' = <<>>

DoOnMouseLeaveEvent ==
    /\ Becomes(OnMouseLeaveEvent(This))
    /\ last' = Call("OnMouseLeaveEvent", 0, 0)
    /\ rot_trail' = <<>>
    /\ pan' = <<>>

Next ==
    \/ DoOnDraw
    \/ \E direction \in RotateDirections : DoRotate(direction)
    \/ \E d \in PanDeltas : DoMoveViewport(d[1], d[2])
    \/ \E mode \in MouseModes : DoSetMouseMode(mode)
    \/ \E pos \in MousePositions : DoOnMouseMoveEvent(pos)
    \/ \E state \in ButtonStates : DoOnMouseButtonEvent(state)
    \/ DoOnMouseEnterEvent
    \/ DoOnMouseLeaveEvent

Spec == Init /\ [][Next]_vars

(* Panning alone, at any zoom: the viewport after construction with its tile  *)
(* width, orientation and center set, then at most MaxPanRun MoveViewport     *)
(* calls.                                                                     *)
InitPan ==
    /\ world = World2x2
    /\ LET v == NewViewport(world) IN
        /\ \E c \in PanCenters : xview = c[1] /\ yview = c[2]
        /\ zview = v.zview
        /\ tile_width \in PanTileWidths
        /\ tile_height = v.tile_height
        /\ orientation \in Orientations
        /\ mouse_mode = v.mouse_mode
        /\ mouse_pos = v.mouse_pos
        /\ mouse_state = v.mouse_state
        /\ xvoxel = v.xvoxel
        /\ yvoxel = v.yvoxel
        /\ zvoxel = v.zvoxel
    /\ last = Call("Viewport", 0, 0)
    /\ marked = FALSE
    /\ pf = <<>>
    /\ sc = <<>>
    /\ video = <<>>
    /\ rot_trail = <<>>
    /\ pan = <<>>

NextPan ==
    \E d \in FinePanDeltas :
        /\ IF pan = <<>> THEN TRUE ELSE pan[1].run < MaxPanRun
        /\ DoMoveViewport(d[1], d[2])

SpecPan == InitPan /\ [][NextPan]_vars

(* The projector alone: the viewport with any orientation, tile size and     *)
(* view point, drawn and turned.                                             *)
ProjTileWidths == {64, 48, 100}
ProjTileHeights == {16, 1, 7}
ProjViews == {<<256, 256>>, <<0, 37>>, <<100, 512>>}
ProjZViews == {0, 8 * 256, 8 * 256 + 52}

InitProj ==
    /\ world = World2x2
    /\ LET v == NewViewport(world) IN
        /\ \E c \in ProjViews : xview = c[1] /\ yview = c[2]
        /\ zview \in ProjZViews
        /\ tile_width \in ProjTileWidths
        /\ tile_height \in ProjTileHeights
        /\ orientation \in Orientations
        /\ mouse_mode = v.mouse_mode
        /\ mouse_pos = v.mouse_pos
        /\ mouse_state = v.mouse_state
        /\ xvoxel = v.xvoxel
        /\ yvoxel = v.yvoxel
        /\ zvoxel = v.zvoxel
    /\ last = Call("Viewport", 0, 0)
    /\ marked = FALSE
    /\ pf = <<>>
    /\ sc = <<>>
    /\ video = <<>>
    /\ rot_trail = <<>>
    /\ pan = <<>>

NextProj ==
    \/ DoOnDraw
    \/ \E direction \in RotateDirections : DoRotate(direction)

SpecProj == InitProj /\ [][NextProj]_vars

----------------------------------------------------------------------------
(* Notions the properties are stated in. *)

\* The depth key of the voxel (x, y, z) seen at orientation o, per orientation:
\* the position along the viewing axis, growing toward the viewer.
DepthKey(o, x, y, z) ==
    CASE o = VOR_NORTH -> 256 * (x + y + z)
      [] o = VOR_EAST  -> 256 * (x - y + z)
      [] o = VOR_SOUTH -> 256 * (z - x - y)
      [] o = VOR_WEST  -> 256 * (y - x + z)

\* The visited voxel e is one a probe at rect can hit: a surface voxel with a
\* valid ground type and a sprite, the probe at or beyond the sprite's top-left
\* corner and on a pixel that is not transparent.
Qualifies(o, tw, rect, e) ==
    /\ e.vox.type = "VT_SURFACE"
    /\ e.vox.gtype # "GTP_INVALID"
    /\ GetSurfaceSprite(e.vox.gtype, e.vox.slope, tw, o) # NULL
    /\ LET spr == GetSurfaceSprite(e.vox.gtype, e.vox.slope, tw, o)
           px == rect.x - e.xnorth - spr.xoffset
           py == rect.y - e.ynorth - spr.yoffset
       IN px >= 0 /\ py >= 0 /\ GetPixel(spr, px, py) # 0

\* The pixel the probe at rect samples from the sprite of the visited voxel e.
Sampled(o, tw, rect, e) ==
    LET spr == GetSurfaceSprite(e.vox.gtype, e.vox.slope, tw, o)
    IN GetPixel(spr, rect.x - e.xnorth - spr.xoffset, rect.y - e.ynorth - spr.yoffset)

\* The BlitImage calls among the video calls of the last handler.
Blits == SelectSeq(video, LAMBDA c : c.call = "BlitImage")

\* The place in Blits of the blit of the base sprite of draw command i.
BlitOf(i) == CHOOSE k \in 1 .. Len(Blits) : Blits[k].image = i /\ Blits[k].spr.kind = "surface"

\* The projected north corner screen Y of the voxel (x, y, z) in the current view.
NorthY(x, y, z) ==
    ComputeY(orientation, tile_width, tile_height,
             (x + (IF orientation \in {VOR_SOUTH, VOR_WEST} THEN 1 ELSE 0)) * 256,
             (y + (IF orientation \in {VOR_SOUTH, VOR_EAST} THEN 1 ELSE 0)) * 256,
             z * 256)

----------------------------------------------------------------------------
(* Properties. *)

\* C1: after a PixelFinder pass, found holds iff some visited voxel qualifies
\* (surface, valid ground, sprite, non-negative probe offsets, pixel not 0);
\* then the recorded voxel is the qualifying voxel of the greatest depth key,
\* the first visited among those of that key; distance is its key and pixel the
\* value sampled from it.
C1_PixelFinderNearest ==
    pf # <<>> =>
        LET f == pf[1]
            vs == Collect(world, f)
            key(i) == DepthKey(f.orient, vs[i].xpos, vs[i].ypos, vs[i].zpos)
            Q == {i \in 1 .. Len(vs) : Qualifies(f.orient, f.tw, f.rect, vs[i])}
            best == {i \in Q : \A j \in Q : key(j) < key(i) \/ (key(j) = key(i) /\ i <= j)}
        IN /\ f.found <=> Q # {}
           /\ Q # {} =>
                \E i \in best :
                    /\ <<f.xvoxel, f.yvoxel, f.zvoxel>> = <<vs[i].xpos, vs[i].ypos, vs[i].zpos>>
                    /\ f.distance = key(i)
                    /\ f.pixel = Sampled(f.orient, f.tw, f.rect, vs[i])
                    /\ f.pixel # 0

\* A pass in which two qualifying voxels share the greatest depth key.
C1_Witness ==
    /\ pf # <<>>
    /\ pf[1].found
    /\ LET f == pf[1]
           vs == Collect(world, f)
           key(i) == DepthKey(f.orient, vs[i].xpos, vs[i].ypos, vs[i].zpos)
           Q == {i \in 1 .. Len(vs) : Qualifies(f.orient, f.tw, f.rect, vs[i])}
       IN \E i, j \in Q : i # j /\ key(i) = key(j) /\ key(i) = f.distance

\* C2: in a draw pass every draw command carries the depth key of its voxel; of
\* two collected voxels the one farther along the viewing axis has the smaller
\* key and is blitted earlier (at equal height it is the one with the smaller
\* north corner screen Y); the base sprites are blitted in ascending key order,
\* those of equal key in collection order, and a cursor overlay right after
\* its base sprite.
C2_PainterOrder ==
    sc # <<>> =>
        LET m == sc[1].draw_images
            I == 1 .. Len(m)
            B == Blits
        IN /\ \A i \in I : m[i].first = DepthKey(orientation, m[i].voxel[1], m[i].voxel[2],
                                                  m[i].voxel[3])
           /\ \A i \in I : \E k \in 1 .. Len(B) : B[k].image = i /\ B[k].spr = m[i].spr
           /\ \A i, j \in I :
                /\ m[i].first < m[j].first => BlitOf(i) < BlitOf(j)
                /\ (m[i].first = m[j].first /\ m[i].seq < m[j].seq) => BlitOf(i) < BlitOf(j)
                /\ m[i].voxel[3] = m[j].voxel[3] =>
                     (m[i].first < m[j].first
                        <=> NorthY(m[i].voxel[1], m[i].voxel[2], m[i].voxel[3])
                              < NorthY(m[j].voxel[1], m[j].voxel[2], m[j].voxel[3]))
           /\ \A i \in I : m[i].cursor # NULL =>
                /\ BlitOf(i) < Len(B)
                /\ B[BlitOf(i) + 1].spr = m[i].cursor
                /\ B[BlitOf(i) + 1].base = m[i].base
           /\ \A k \in 1 .. Len(B) : B[k].spr.kind = "cursor" =>
                /\ k > 1
                /\ B[k - 1].spr.kind = "surface"
                /\ B[k - 1].image = B[k].image
                /\ m[B[k].image].cursor = B[k].spr
           /\ Len(B) = Len(m) + Cardinality({i \in I : m[i].cursor # NULL})

\* A draw pass with two commands of equal key, commands of different keys that
\* were collected nearest first, and a cursor overlay.
C2_Witness ==
    /\ sc # <<>>
    /\ LET m == sc[1].draw_images
       IN /\ \E i, j \in 1 .. Len(m) : i # j /\ m[i].first = m[j].first
          /\ \E i, j \in 1 .. Len(m) : m[i].first < m[j].first /\ m[i].seq > m[j].seq
          /\ \E i \in 1 .. Len(m) : m[i].cursor # NULL

\* C3: the view center stays inside the world: 0 <= xview <= GetXSize() * 256
\* and 0 <= yview <= GetYSize() * 256, after construction and after every
\* handler.
C3_CenterInWorld ==
    /\ 0 <= xview /\ xview <= GetXSize(world) * 256
    /\ 0 <= yview /\ yview <= GetYSize(world) * 256

\* A pan whose result the clamp altered.
C3_Witness ==
    /\ pan # <<>>
    /\ pan[1].clamped
    /\ <<xview, yview>> # pan[1].from

\* The viewport a recorded MoveViewport call started from.
PanFrom == [This EXCEPT !.xview = pan[1].from[1], !.yview = pan[1].from[2],
                        !.orientation = pan[1].orientation]

\* The clamped new center of a recorded MoveViewport call.
PanTarget ==
    <<Clamp(MoveNewX(PanFrom, pan[1].dx, pan[1].dy), 0, GetXSize(world) * 256),
      Clamp(MoveNewY(PanFrom, pan[1].dx, pan[1].dy), 0, GetYSize(world) * 256)>>

\* C4: MoveViewport signals a redraw iff the clamped new center differs from
\* the current one; if it is the same, xview and yview stay as they are.
C4_PanRedraw ==
    pan # <<>> =>
        /\ marked <=> PanTarget # pan[1].from
        /\ PanTarget = pan[1].from => <<xview, yview>> = pan[1].from

\* A pan with a non-zero delta that the clamp absorbed entirely.
C4_Witness ==
    /\ pan # <<>>
    /\ <<pan[1].dx, pan[1].dy>> # <<0, 0>>
    /\ pan[1].clamped
    /\ PanTarget = pan[1].from
    /\ ~marked

\* C5: a pointer move in TERRAFORM mode to another position with the right
\* button up runs a PixelFinder over the 1 x 1 probe at the pointer's position
\* relative to the view; the tracked voxel becomes the voxel found, with a
\* redraw signalled, iff a voxel was found and differs from the tracked one;
\* else the tracked voxel stays and no redraw is signalled.
C5_CursorTracking ==
    [][(/\ last'.op = "OnMouseMoveEvent"
        /\ mouse_mode = MM_TILE_TERRAFORM
        /\ <<last'.a, last'.b>> # <<mouse_pos.x, mouse_pos.y>>
        /\ ~HasBit(mouse_state, MB_RIGHT))
       => /\ pf' # <<>>
          /\ pf'[1].orient = orientation
          /\ pf'[1].rect =
               [x |-> ComputeX(orientation, tile_width, xview, yview) + last'.a - WinW \div 2,
                y |-> ComputeY(orientation, tile_width, tile_height, xview, yview, zview)
                      + last'.b - WinH \div 2,
                width |-> 1, height |-> 1]
          /\ LET f == pf'[1]
                 changes == f.found /\ <<f.xvoxel, f.yvoxel, f.zvoxel>> # <<xvoxel, yvoxel, zvoxel>>
             IN /\ changes => <<xvoxel', yvoxel', zvoxel'>> = <<f.xvoxel, f.yvoxel, f.zvoxel>>
                /\ ~changes => <<xvoxel', yvoxel', zvoxel'>> = <<xvoxel, yvoxel, zvoxel>>
                /\ marked' <=> changes]_vars

\* A pointer move whose pick replaced a tracked voxel that an earlier pick had
\* found.
C5_Witness ==
    /\ last.op = "OnMouseMoveEvent"
    /\ mouse_mode = MM_TILE_TERRAFORM
    /\ pf # <<>>
    /\ pf[1].found
    /\ marked
    /\ <<xvoxel, yvoxel, zvoxel>> = <<pf[1].xvoxel, pf[1].yvoxel, pf[1].zvoxel>>
    /\ ~HasBit(mouse_state, MB_RIGHT)

\* C6: the mouse mode is INACTIVE after construction, only SetMouseMode changes
\* it, and every SetMouseMode call leaves the button bitmask empty.
C6_ModeOnlyBySetMouseMode ==
    /\ mouse_mode = MM_INACTIVE
    /\ [][/\ mouse_mode' # mouse_mode => last'.op = "SetMouseMode"
          /\ last'.op = "SetMouseMode" => (mouse_mode' = last'.a /\ mouse_state' = 0)]_vars

\* SetMouseMode has set the TERRAFORM mode.
C6_Witness ==
    /\ last.op = "SetMouseMode"
    /\ mouse_mode = MM_TILE_TERRAFORM
    /\ mouse_state = 0

\* C7: Rotate turns the orientation by +1 mod 4 for a positive direction and
\* by -1 mod 4 otherwise; the orientation is always one of the four; four
\* Rotate calls in a row in one direction restore it, and so does a clockwise
\* call followed by an anti-clockwise one.
C7_RotateGroup ==
    /\ orientation \in {VOR_NORTH, VOR_EAST, VOR_SOUTH, VOR_WEST}
    /\ rot_trail # <<>> =>
        LET n == Len(rot_trail) IN
        /\ last.op = "Rotate"
        /\ rot_trail[n].cw <=> last.a > 0
        /\ rot_trail[n].cw => orientation = (rot_trail[n].before + 1) % 4
        /\ ~rot_trail[n].cw => orientation = (rot_trail[n].before + 3) % 4
        /\ (n = 4 /\ \A k \in 1 .. 4 : rot_trail[k].cw = rot_trail[1].cw)
              => orientation = rot_trail[1].before
        /\ (n >= 2 /\ rot_trail[n - 1].cw /\ ~rot_trail[n].cw)
              => orientation = rot_trail[n - 1].before

\* Four anti-clockwise Rotate calls in a row, the first of them from NORTH.
C7_Witness ==
    /\ Len(rot_trail) = 4
    /\ \A k \in 1 .. 4 : ~rot_trail[k].cw
    /\ rot_trail[1].before = VOR_NORTH
    /\ orientation = VOR_NORTH

\* C8: at every orientation and tile width, MoveViewport(dx, dy) followed at
\* once by MoveViewport(-dx, -dy) restores (xview, yview) when the clamp
\* altered neither result.
C8_PanRoundTrip ==
    (pan # <<>> /\ pan[1].undo /\ ~pan[1].clamped) => <<xview, yview>> = pan[1].undo_to

\* A round trip whose delta the tile width does not divide, so that both
\* divisions of MoveViewport rounded.
C8_Witness ==
    /\ pan # <<>>
    /\ pan[1].undo
    /\ ~pan[1].clamped
    /\ (pan[1].dx * 256) % tile_width # 0
    /\ (pan[1].dy * 512) % tile_width # 0
    /\ <<xview, yview>> = pan[1].undo_to

\* C9: in INACTIVE mode a pointer move is ignored: view center, stored mouse
\* position, tracked voxel, orientation and button bitmask stay as they are,
\* no PixelFinder pass is run and no redraw is signalled.
C9_InactiveIgnoresMove ==
    [][(last'.op = "OnMouseMoveEvent" /\ mouse_mode = MM_INACTIVE)
       => /\ UNCHANGED <<xview, yview, mouse_pos, xvoxel, yvoxel, zvoxel,
                         orientation, mouse_state>>
          /\ pf' = <<>>
          /\ ~marked']_vars

\* A pointer move to another position than the stored one, in INACTIVE mode.
C9_Witness ==
    /\ last.op = "OnMouseMoveEvent"
    /\ mouse_mode = MM_INACTIVE
    /\ <<last.a, last.b>> # <<mouse_pos.x, mouse_pos.y>>

\* C10 as stated: a button event sets the bitmask to state & MB_CURRENT in
\* whatever mouse mode, and a leave or enter event empties it.
C10_ButtonsInAnyMode ==
    /\ last.op = "OnMouseButtonEvent" => mouse_state = last.a % 8
    /\ last.op \in {"OnMouseEnterEvent", "OnMouseLeaveEvent"} => mouse_state = 0

\* C10, amended: a button event sets the bitmask to state & MB_CURRENT in
\* TERRAFORM mode and leaves it as it is in INACTIVE mode; a leave or enter
\* event empties it.
C10_ButtonsInTerraform ==
    [][/\ (last'.op = "OnMouseButtonEvent" /\ mouse_mode = MM_TILE_TERRAFORM)
            => mouse_state' = last'.a % 8
       /\ (last'.op = "OnMouseButtonEvent" /\ mouse_mode = MM_INACTIVE)
            => mouse_state' = mouse_state
       /\ last'.op \in {"OnMouseEnterEvent", "OnMouseLeaveEvent"} => mouse_state' = 0]_vars

\* A button event in TERRAFORM mode whose state carried previous-state bits.
C10_Witness ==
    /\ last.op = "OnMouseButtonEvent"
    /\ mouse_mode = MM_TILE_TERRAFORM
    /\ last.a > MB_CURRENT
    /\ mouse_state = MB_RIGHT

----------------------------------------------------------------------------
(* The surface lock along the calls of a handler. *)

\* The places of the calls named c in the calls of the last handler.
CallsAt(c) == {i \in 1..Len(video) : video[i].call = c}

\* Whether the surface lock is held right after the call at place i: more
\* LockSurface than UnlockSurface calls were made up to it.
LockHeldAfter(i) ==
    Cardinality({j \in CallsAt("LockSurface") : j <= i})
        > Cardinality({j \in CallsAt("UnlockSurface") : j <= i})

\* C11: in every OnDraw the collection pass is over before the surface is
\* locked, the surface is locked once, it is filled right after the lock and
\* before any blit, every blit is made while the lock is held and the surface
\* is unlocked as the last call; in every handler no collection pass runs
\* while the lock is held and the lock is not held when the handler returns.
C11_LockBracket ==
    /\ last.op = "OnDraw" =>
          /\ Len(video) >= 4
          /\ CallsAt("Collect") = {1}
          /\ CallsAt("LockSurface") = {2}
          /\ CallsAt("FillSurface") = {3}
          /\ CallsAt("UnlockSurface") = {Len(video)}
          /\ CallsAt("BlitImage") = 4..(Len(video) - 1)
          /\ \A i \in CallsAt("BlitImage") \cup CallsAt("FillSurface") : LockHeldAfter(i)
    /\ \A i \in CallsAt("Collect") : ~LockHeldAfter(i)
    /\ Len(video) > 0 => ~LockHeldAfter(Len(video))
    /\ last.op # "OnDraw" => CallsAt("LockSurface") = {}

\* A draw cycle that blitted two images or more between the lock and the unlock.
C11_Witness ==
    /\ last.op = "OnDraw"
    /\ Cardinality(CallsAt("BlitImage")) >= 2
    /\ LockHeldAfter(4)

----------------------------------------------------------------------------
(* Absent data. *)

\* Whether the world w has a voxel at (x, y, z) that contributes a sprite at
\* the tile width tw and the orientation o: a surface voxel with a ground type
\* for which the sprite store has a sprite.
HasSprite(w, o, tw, x, y, z) ==
    /\ x \in 0 .. (GetXSize(w) - 1)
    /\ y \in 0 .. (GetYSize(w) - 1)
    /\ LET stack == GetStack(w, x, y) IN
       /\ z - stack.base \in 0 .. (stack.height - 1)
       /\ LET vox == stack.voxels[z - stack.base + 1] IN
          /\ vox.type = "VT_SURFACE"
          /\ vox.gtype # "GTP_INVALID"
          /\ GetSurfaceSprite(vox.gtype, vox.slope, tw, o) # NULL

\* The voxels the pass of the collector c visited that contribute no sprite.
AbsentVisited(c) ==
    {i \in 1 .. Len(Collect(world, c)) :
        LET e == Collect(world, c)[i]
        IN ~HasSprite(world, c.orient, c.tw, e.xpos, e.ypos, e.zpos)}

\* C12: a voxel that is not a surface voxel, has an invalid ground type or has
\* no sprite adds no draw command to a SpriteCollector pass (so no blit) and is
\* never the voxel a PixelFinder found; in the 1 x 1 world whose voxel has an
\* invalid ground type a draw pass has no draw command and a pick finds
\* nothing, at whatever orientation.
C12_AbsentDataInvisible ==
    /\ \A i \in 1 .. Len(sc) :
          /\ \A k \in 1 .. Len(sc[i].draw_images) :
                LET d == sc[i].draw_images[k]
                IN /\ HasSprite(world, sc[i].orient, sc[i].tw, d.voxel[1], d.voxel[2], d.voxel[3])
                   /\ d.spr # NULL
          /\ Len(sc[i].draw_images)
                = Len(Collect(world, sc[i])) - Cardinality(AbsentVisited(sc[i]))
          /\ Len(Blits) <= 2 * Len(sc[i].draw_images)
          /\ world = World1x1Invalid => sc[i].draw_images = <<>> /\ Blits = <<>>
    /\ \A i \in 1 .. Len(pf) :
          /\ pf[i].found =>
                HasSprite(world, pf[i].orient, pf[i].tw, pf[i].xvoxel, pf[i].yvoxel, pf[i].zvoxel)
          /\ world = World1x1Invalid => ~pf[i].found

\* A draw pass over the 1 x 1 world that visited its voxel, after a turn.
C12_Witness ==
    /\ world = World1x1Invalid
    /\ sc # <<>>
    /\ orientation = VOR_SOUTH
    /\ AbsentVisited(sc[1]) = {1}

----------------------------------------------------------------------------
(* The projector along z. *)

\* Steps from the view point to the positions the projector is compared at.
ProjSteps == {-600, -256, -1, 0, 1, 255, 256}

\* The positions of a state the projector is compared at: the view point, the
\* positions around it, below and above it, and the north corners of the
\* voxels the last draw pass visited.
ProjPositions ==
    {<<xview + dx, yview + dy, zview + dz>> : dx \in ProjSteps, dy \in {-600, 0, 1}, dz \in ProjSteps}
    \cup {<<0, 0, 0>>, <<256, 0, 0>>, <<0, 256, 0>>}
    \cup UNION {{<<(e.xpos + a) * 256, (e.ypos + b) * 256, e.zpos * 256>> : a \in 0 .. 1, b \in 0 .. 1}
                    : e \in UNION {{Collect(world, sc[i])[k] : k \in 1 .. Len(Collect(world, sc[i]))}
                                        : i \in 1 .. Len(sc)}}

\* C13: at each of the four orientations and at every position (x, y, z),
\* ComputeY(x, y, z + 256) = ComputeY(x, y, z) - tile_height, so the screen Y
\* strictly decreases when z goes up one tile, whatever the tile height > 0
\* (and so do the north corners of the voxels of a column as Collect goes up).
C13_OneTileUp ==
    /\ tile_height > 0
    /\ \A p \in ProjPositions :
          LET y0 == ComputeY(orientation, tile_width, tile_height, p[1], p[2], p[3])
              y1 == ComputeY(orientation, tile_width, tile_height, p[1], p[2], p[3] + 256)
          IN y1 = y0 - tile_height /\ y1 < y0
    /\ \A i \in 1 .. Len(sc) :
          LET vs == Collect(world, sc[i]) IN
          /\ sc[i].rect.y = ComputeY(orientation, tile_width, tile_height, xview, yview, zview)
                               + CDiv(-Int16(WinH), 2)
          /\ \A k, l \in 1 .. Len(vs) :
                (vs[k].xpos = vs[l].xpos /\ vs[k].ypos = vs[l].ypos)
                    => vs[l].ynorth = vs[k].ynorth - (vs[l].zpos - vs[k].zpos) * tile_height

\* A draw at another orientation than the first, with a tile height that is
\* not a quarter of the tile width and a view height between two tiles, that
\* visited two voxels of one column; the sum the projector shifts is positive
\* at the view point and negative one tile up.
C13_Witness ==
    /\ last.op = "OnDraw"
    /\ orientation = VOR_WEST
    /\ tile_height # tile_width \div 4
    /\ zview % 256 # 0
    /\ \E k, l \in 1 .. Len(Collect(world, sc[1])) :
          LET vs == Collect(world, sc[1]) IN
          vs[k].xpos = vs[l].xpos /\ vs[k].ypos = vs[l].ypos /\ vs[l].zpos = vs[k].zpos + 1
    /\ \E p \in ProjPositions :
          LET sum == CDiv((p[2] - p[1]) * tile_width, 4) - p[3] * tile_height
          IN sum > 0 /\ sum % 256 # 0 /\ sum - 256 * tile_height < 0

----------------------------------------------------------------------------
(* The voxels a Collect pass has to visit. *)

\* The north corner of the column (xpos, ypos) on the screen of collector c.
ColumnNorthX(c, xpos, ypos) ==
    ComputeX(c.orient, c.tw,
             (xpos + (IF c.orient \in {VOR_SOUTH, VOR_WEST} THEN 1 ELSE 0)) * 256,
             (ypos + (IF c.orient \in {VOR_SOUTH, VOR_EAST} THEN 1 ELSE 0)) * 256)

\* The north corner of the voxel (xpos, ypos, zpos) on the screen of collector c.
VoxelNorthY(c, xpos, ypos, zpos) ==
    ComputeY(c.orient, c.tw, c.th,
             (xpos + (IF c.orient \in {VOR_SOUTH, VOR_WEST} THEN 1 ELSE 0)) * 256,
             (ypos + (IF c.orient \in {VOR_SOUTH, VOR_EAST} THEN 1 ELSE 0)) * 256,
             zpos * 256)

\* The column overlaps the rectangle of c horizontally.
ColumnOverlaps(c, xpos, ypos) ==
    /\ ColumnNorthX(c, xpos, ypos) + (c.tw \div 2) > c.rect.x
    /\ ColumnNorthX(c, xpos, ypos) - (c.tw \div 2) < c.rect.x + c.rect.width

\* The voxel is entirely below, entirely above the rectangle of c.
VoxelBelow(c, xpos, ypos, zpos) ==
    VoxelNorthY(c, xpos, ypos, zpos) - c.th >= c.rect.y + c.rect.height
VoxelAbove(c, xpos, ypos, zpos) ==
    VoxelNorthY(c, xpos, ypos, zpos) + (c.tw \div 2) + c.th <= c.rect.y

\* The voxels of the world w, as (xpos, ypos, zpos).
WorldVoxels(w) ==
    UNION {{<<x, y, GetStack(w, x, y).base + count>> : count \in 0 .. (GetStack(w, x, y).height - 1)}
              : <<x, y>> \in (0 .. (GetXSize(w) - 1)) \X (0 .. (GetYSize(w) - 1))}

\* (xpos, ypos, zpos) order: X first, then Y, then height.
VoxelBefore(a, b) ==
    \/ a[1] < b[1]
    \/ a[1] = b[1] /\ a[2] < b[2]
    \/ a[1] = b[1] /\ a[2] = b[2] /\ a[3] < b[3]

\* What C14 says of the pass of the collector c.
CollectSound(c) ==
    LET vs == Collect(world, c)
        at(k) == <<vs[k].xpos, vs[k].ypos, vs[k].zpos>>
    IN /\ \A k \in 1 .. (Len(vs) - 1) : VoxelBefore(at(k), at(k + 1))
       /\ {at(k) : k \in 1 .. Len(vs)}
             = {p \in WorldVoxels(world) :
                   /\ ColumnOverlaps(c, p[1], p[2])
                   /\ ~VoxelBelow(c, p[1], p[2], p[3])
                   /\ ~VoxelAbove(c, p[1], p[2], p[3])}
       /\ \A k \in 1 .. Len(vs) :
             /\ vs[k].vox = GetStack(world, vs[k].xpos, vs[k].ypos)
                               .voxels[vs[k].zpos - GetStack(world, vs[k].xpos, vs[k].ypos).base + 1]
             /\ vs[k].xnorth = ColumnNorthX(c, vs[k].xpos, vs[k].ypos)
             /\ vs[k].ynorth = VoxelNorthY(c, vs[k].xpos, vs[k].ypos, vs[k].zpos)
       /\ \A p, q \in WorldVoxels(world) :
             (p[1] = q[1] /\ p[2] = q[2] /\ p[3] < q[3] /\ VoxelAbove(c, p[1], p[2], p[3]))
                 => VoxelAbove(c, q[1], q[2], q[3])

\* C14: a Collect pass (of a draw or of a pick) hands over its voxels in the
\* order X ascending, then Y ascending, then height ascending; they are exactly
\* the voxels of the columns that overlap the rectangle horizontally which are
\* neither entirely below nor entirely above it, each with its own voxel data
\* and north corner; and in a column every voxel higher than one that meets
\* the break condition meets it too, at each of the four orientations.
C14_CollectExact ==
    /\ \A i \in 1 .. Len(sc) : CollectSound(sc[i])
    /\ \A i \in 1 .. Len(pf) : CollectSound(pf[i])

\* A pass that left a column which overlaps the rectangle at a voxel above the
\* rectangle, with a higher voxel of the column still to come.
C14_Witness ==
    \E c \in {pf[i] : i \in 1 .. Len(pf)} \cup {sc[i] : i \in 1 .. Len(sc)} :
        \E p, q \in WorldVoxels(world) :
            /\ p[1] = q[1] /\ p[2] = q[2] /\ p[3] < q[3]
            /\ ColumnOverlaps(c, p[1], p[2])
            /\ VoxelAbove(c, p[1], p[2], p[3])
            /\ ~VoxelBelow(c, p[1], p[2], p[3])

----------------------------------------------------------------------------
(* The button bitmask and the mouse mode. *)

\* The step is a pointer motion that moved the center of the view.
DragPanStep ==
    /\ last'.op = "OnMouseMoveEvent"
    /\ xview' # xview \/ yview' # yview

\* C15: in INACTIVE mode the button bitmask is empty and in every mode it has
\* no bit outside MB_CURRENT, from construction on; the right-button bit comes
\* up only by a button event with that bit in TERRAFORM mode, every mode-set,
\* enter and leave empties the bitmask, and a pointer motion moves the view
\* only in TERRAFORM mode with the right-button bit up: so none does unless a
\* right-button event arrived in TERRAFORM mode after the last mode-set, enter
\* or leave.
C15_InactiveNoButtons ==
    /\ [](mouse_mode = MM_INACTIVE => mouse_state = 0)
    /\ [](mouse_state \in 0 .. MB_CURRENT)
    /\ [][/\ (HasBit(mouse_state', MB_RIGHT) /\ ~HasBit(mouse_state, MB_RIGHT))
               => /\ last'.op = "OnMouseButtonEvent"
                  /\ HasBit(last'.a, MB_RIGHT)
                  /\ mouse_mode = MM_TILE_TERRAFORM
                  /\ mouse_mode' = MM_TILE_TERRAFORM
          /\ last'.op \in {"SetMouseMode", "OnMouseEnterEvent", "OnMouseLeaveEvent"}
               => mouse_state' = 0
          /\ DragPanStep
               => /\ HasBit(mouse_state, MB_RIGHT)
                  /\ mouse_mode = MM_TILE_TERRAFORM]_vars

\* A right-button event that arrived in INACTIVE mode.
C15_Witness ==
    /\ mouse_mode = MM_INACTIVE
    /\ last.op = "OnMouseButtonEvent"
    /\ HasBit(last.a, MB_RIGHT)
    /\ mouse_state = 0

====
